---------------------------- MODULE Spec2Model ----------------------------
(***************************************************************************)
(* Model of jasmin_mongo_logger's LogReactor (reactor.py): the broker and  *)
(* store reconnect logic, the consume loop of gotConnection and the        *)
(* per-message documents it writes.                                        *)
(***************************************************************************)
EXTENDS Integers, Sequences, FiniteSets, TLC

(* ------------------------------ bounds --------------------------------- *)
\* largest configured max_retries that is explored
MaxRetries == 2
\* failures of one kind that are explored beyond the largest retry budget
MaxExtraFailures == 1
\* events the gateway publishes in one run
MaxPublish == 2
\* distinct message ids
MaxIds == 1
\* longest key of the documents that are sanitized
MaxKeyLen == 2
\* most entries of one map or list of these documents
MaxEntries == 2
\* times one document is sanitized
MaxPasses == 2
\* longest chain of PDUs (nextPdu links) of one Submission
MaxChain == 2

(* ----------------------------- constants ------------------------------- *)
None == "None"
Handle == "MongoDB"

MessageIds == 1..MaxIds
RetryChoices == (-1)..MaxRetries
FailureCap == MaxRetries + MaxExtraFailures

\* routing keys, as character sequences
RK_SUBMIT == <<"s","u","b","m","i","t",".","s","m",".","c","1">>
RK_RESP   == <<"s","u","b","m","i","t",".","s","m",".","r","e","s","p",".","c","1">>
RK_DLR    == <<"d","l","r","_","t","h","r","o","w","e","r",".","h","t","t","p">>
RK_OTHER  == <<"d","e","l","i","v","e","r",".","s","m",".","c","1">>
RoutingKeys == {RK_SUBMIT, RK_RESP, RK_DLR, RK_OTHER}

SUBMIT_SM_PREFIX      == <<"s","u","b","m","i","t",".","s","m",".">>
SUBMIT_SM_RESP_PREFIX == <<"s","u","b","m","i","t",".","s","m",".","r","e","s","p",".">>
DLR_THROWER_PREFIX    == <<"d","l","r","_","t","h","r","o","w","e","r",".">>

(* --------------------------- pure functions ---------------------------- *)
\* Python slice s[:n]
Slice(s, n) == SubSeq(s, 1, IF Len(s) < n THEN Len(s) ELSE n)

\* the if/elif chain on msg.routing_key
Classify_noexclude(rk) ==
    IF Slice(rk, 10) = SUBMIT_SM_PREFIX
    THEN "Submission"
    ELSE IF Slice(rk, 15) = SUBMIT_SM_RESP_PREFIX THEN "Acknowledgement"
    ELSE IF Slice(rk, 12) = DLR_THROWER_PREFIX THEN "DeliveryReceipt"
    ELSE "Unknown"
Classify(rk) ==
    IF Slice(rk, 10) = SUBMIT_SM_PREFIX /\ Slice(rk, 15) # SUBMIT_SM_RESP_PREFIX
    THEN "Submission"
    ELSE IF Slice(rk, 15) = SUBMIT_SM_RESP_PREFIX THEN "Acknowledgement"
    ELSE IF Slice(rk, 12) = DLR_THROWER_PREFIX THEN "DeliveryReceipt"
    ELSE "Unknown"

\* self.RETRY_FOREVER = max_retries <= 0
RetryForeverOf_strict(m) == m < 0
RetryForeverOf(m) == m <= 0


\* if not RETRY_ON_CONNECTION_ERROR or (amqp_broker_max_retries <= 0 and not
\* RETRY_FOREVER), in ConError
ConErrorShouldStop_offbyone(retry, cnt, forever) ==
    ~retry \/ (cnt < 0 /\ ~forever)
ConErrorShouldStop(retry, cnt, forever) ==
    ~retry \/ (cnt <= 0 /\ ~forever)

\* the same test at the end of gotConnection
GotConnectionShouldStop_nocount(retry, cnt, forever) ==
    ~retry
GotConnectionShouldStop(retry, cnt, forever) ==
    ~retry \/ (cnt <= 0 /\ ~forever)

\* condition of the store retry loop of gotConnection
MongoLoopCond_bounded(src, retry, cnt, forever) ==
    src = None /\ retry /\ cnt > 0
MongoLoopCond(src, retry, cnt, forever) ==
    src = None /\ retry /\ (cnt > 0 \/ forever)

\* if mongosource is None: StopReactor(); return
MongoFatal_never(src) == FALSE
MongoFatal(src) == src = None

\* _connect_to_mongo: the handle when startConnection() is True, else None
connect_to_mongo(ok) == IF ok THEN Handle ELSE None

\* cleanConnectionBreak is a generator function that is called and never
\* iterated: none of its statements runs, the connection stays as it is
cleanConnectionBreak(c) == c

(* ------------------- documents: replace_none, fix_keys ------------------ *)
\* a value is a record of one shape: t its type, v its scalar content, items
\* the entries of a list or dict in insertion order; an entry is [k, val], k
\* the key as a character sequence (<<>> for the entries of a list)
Null     == [t |-> "null", v |-> 0, items |-> <<>>]
Int1     == [t |-> "int",  v |-> 1, items |-> <<>>]
\* the string "None"
NoneText == [t |-> "str",  v |-> 0, items |-> <<>>]
Item(k, val) == [k |-> k, val |-> val]
Dict(items)  == [t |-> "dict", v |-> 0, items |-> items]
List(items)  == [t |-> "list", v |-> 0, items |-> items]

\* a key that is no str (an int)
IntKey == <<"7">>
IsStr(k) == k # IntKey

\* isinstance(x, (list, dict))
Composite(x) == x.t \in {"list", "dict"}

RECURSIVE replace_none(_)
replace_none_shallow(data) ==
    IF Composite(data)
    THEN [data EXCEPT !.items =
            [i \in DOMAIN data.items |->
                LET x == data.items[i].val
                IN Item(data.items[i].k, IF x = Null THEN NoneText ELSE x)]]
    ELSE data
replace_none(data) ==
    IF Composite(data)
    THEN [data EXCEPT !.items =
            [i \in DOMAIN data.items |->
                LET x == data.items[i].val
                IN Item(data.items[i].k,
                        IF x = Null THEN NoneText
                        ELSE IF Composite(x) THEN replace_none(x)
                        ELSE x)]]
    ELSE data

\* str.replace(c, r): every occurrence of the character c becomes r
RECURSIVE ReplaceAll(_, _, _)
ReplaceAll(s, c, r) ==
    IF s = <<>> THEN <<>>
    ELSE (IF Head(s) = c THEN r ELSE <<Head(s)>>) \o ReplaceAll(Tail(s), c, r)

\* c in s
Contains(s, c) == \E i \in DOMAIN s : s[i] = c
\* s.startswith(c)
StartsWith(s, c) == s # <<>> /\ s[1] = c

DOLLAR_ == <<"d","o","l","l","a","r","_">>

\* new_key of fix_keys: the three tests are made on k, the replacements on
\* new_key
NewKey_dash(k) ==
    LET k1 == IF StartsWith(k, "$") THEN ReplaceAll(k, "$", DOLLAR_) ELSE k
        k2 == IF Contains(k, ".") THEN ReplaceAll(k1, ".", <<"-">>) ELSE k1
        k3 == IF Contains(k, "-") THEN ReplaceAll(k2, "-", <<"_">>) ELSE k2
    IN k3
NewKey(k) ==
    LET k1 == IF StartsWith(k, "$") THEN ReplaceAll(k, "$", DOLLAR_) ELSE k
        k2 == IF Contains(k, ".") THEN ReplaceAll(k1, ".", <<"_">>) ELSE k1
        k3 == IF Contains(k, "-") THEN ReplaceAll(k2, "-", <<"_">>) ELSE k2
    IN k3

\* dict operations on the entries: k in d, d[k], d.pop(k), d[k] = val (an
\* existing key keeps its place, a new key goes to the end)
DictHas(items, k) == \E i \in DOMAIN items : items[i].k = k
DictGet(items, k) == items[CHOOSE i \in DOMAIN items : items[i].k = k].val
DictPop(items, k) ==
    LET Keep(it) == it.k # k IN SelectSeq(items, Keep)
DictSet(items, k, val) ==
    IF DictHas(items, k)
    THEN [i \in DOMAIN items |->
            IF items[i].k = k THEN Item(k, val) ELSE items[i]]
    ELSE Append(items, Item(k, val))

RECURSIVE fix_keys(_)
RECURSIVE FixDictLoop(_, _, _)
\* the loop over list(data.items()): orig is the copy, i the position in it,
\* cur the dict as the earlier rounds left it; fix_keys(v) changes v in
\* place, so it shows in the dict only where v is still stored
FixDictLoop(orig, i, cur) ==
    IF i > Len(orig) THEN cur
    ELSE LET k == orig[i].k
             v == orig[i].val
             nk == IF IsStr(k) THEN NewKey(k) ELSE k
             moved == IF nk # k
                      THEN DictSet(DictPop(cur, k), nk, DictGet(cur, k))
                      ELSE cur
             fixed == IF Composite(v) /\ DictHas(moved, nk)
                         /\ DictGet(moved, nk) = v
                      THEN DictSet(moved, nk, fix_keys(v))
                      ELSE moved
         IN FixDictLoop(orig, i + 1, fixed)

fix_keys_shallow(data) ==
    IF data.t = "list" THEN data
    ELSE IF data.t = "dict"
    THEN [data EXCEPT !.items = FixDictLoop(data.items, 1, data.items)]
    ELSE data
fix_keys(data) ==
    IF data.t = "list"
    THEN [data EXCEPT !.items =
            [i \in DOMAIN data.items |->
                IF Composite(data.items[i].val)
                THEN Item(data.items[i].k, fix_keys(data.items[i].val))
                ELSE data.items[i]]]
    ELSE IF data.t = "dict"
    THEN [data EXCEPT !.items = FixDictLoop(data.items, 1, data.items)]
    ELSE data

\* the two calls made on every document before update_one
Sanitize(data) == fix_keys(replace_none(data))

\* the documents explored: maps of one entry under any key, maps and lists
\* of up to MaxEntries entries under one-character keys (where "." and "-"
\* meet each other and "_"), and maps and lists that hold one such map or
\* list with one entry
KeyChars == {"$", ".", "-", "_", "a"}
Keys == {IntKey} \cup UNION {[1..n -> KeyChars] : n \in 1..MaxKeyLen}
ShortKeys == {k \in Keys : Len(k) = 1}
Leaves == {Null, Int1}
DictsOf(keys, vals, n) ==
    {Dict(f) : f \in {g \in UNION {[1..m -> {Item(k, x) : k \in keys, x \in vals}] :
                                     m \in 0..n} :
                        \A i, j \in DOMAIN g : i # j => g[i].k # g[j].k}}
ListsOf(vals, n) ==
    {List(f) : f \in UNION {[1..m -> {Item(<<>>, x) : x \in vals}] : m \in 0..n}}
Flat(n) == DictsOf(Keys, Leaves, 1) \cup DictsOf(ShortKeys, Leaves, n)
           \cup ListsOf(Leaves, n)
Docs == Flat(MaxEntries) \cup DictsOf(Keys, Flat(1), 1) \cup ListsOf(Flat(1), 1)

(* ------------- the Submission document and the DLR entry --------------- *)
\* bytes and code points are integers; a stored value is a record: the bytes
\* of a bytes object, the code points of a str, or the number n and the unit
\* of the str "** n byte content **" / "** n char content **"
Bytes(b)         == [type |-> "bytes", unit |-> "", data |-> b]
Str(cps)         == [type |-> "str", unit |-> "", data |-> cps]
Private(unit, n) == [type |-> "str", unit |-> unit, data |-> <<n>>]
NoText           == [type |-> "none", unit |-> "", data |-> <<>>]
\* an absent data_coding, an absent billing action (None)
NoValue == -1

\* Python slice s[n:]
Drop(s, n) == SubSeq(s, n + 1, Len(s))

UDH_SIGNATURE == <<5, 0, 3>>

\* What type of splitting ?  msg.sar: "sar_msg_ref_num" in pdu_data;
\* msg.udhi: UDHI_INDICATOR_SET; msg.chain: the short_message of the PDU and
\* of the PDUs linked by nextPdu; msg.sar_next: the params of a linked PDU
\* hold sar_msg_ref_num, which is never looked up
SplitMethod_udhionly(msg) ==
    IF msg.sar THEN "sar"
    ELSE IF msg.udhi THEN "udh"
    ELSE None
SplitMethod(msg) ==
    IF msg.sar THEN "sar"
    ELSE IF msg.udhi /\ Slice(msg.chain[1], 3) = UDH_SIGNATURE THEN "udh"
    ELSE None

\* while hasattr(pdu, "nextPdu"): pdu is the i-th PDU of the chain
RECURSIVE ConcatLoop(_, _, _, _)
ConcatLoop_whole(chain, i, splitMethod, acc) ==
    IF i < Len(chain)
    THEN ConcatLoop(chain, i + 1, splitMethod,
            [short_message |-> acc.short_message \o chain[i + 1],
             sms_pages |-> acc.sms_pages + 1])
    ELSE acc
ConcatLoop(chain, i, splitMethod, acc) ==
    IF i < Len(chain)
    THEN ConcatLoop(chain, i + 1, splitMethod,
            [short_message |-> acc.short_message \o
                                 (IF splitMethod = "sar" THEN chain[i + 1]
                                  ELSE Drop(chain[i + 1], 6)),
             sms_pages |-> acc.sms_pages + 1])
    ELSE acc

\* Concatenate short_message
Reassemble_stripsar(msg) ==
    IF SplitMethod(msg) # None
    THEN ConcatLoop(msg.chain, 1, SplitMethod(msg),
            [short_message |-> IF SplitMethod(msg) = "sar"
                                  /\ ~(msg.udhi /\ Slice(msg.chain[1], 3) = UDH_SIGNATURE)
                               THEN msg.chain[1]
                               ELSE Drop(msg.chain[1], 6),
             sms_pages |-> 1])
    ELSE [short_message |-> msg.chain[1], sms_pages |-> 1]
Reassemble(msg) ==
    IF SplitMethod(msg) # None
    THEN ConcatLoop(msg.chain, 1, SplitMethod(msg),
            [short_message |-> IF SplitMethod(msg) = "sar" THEN msg.chain[1]
                               ELSE Drop(msg.chain[1], 6),
             sms_pages |-> 1])
    ELSE [short_message |-> msg.chain[1], sms_pages |-> 1]

\* binascii.hexlify: two hexadecimal digits for each byte
RECURSIVE hexlify(_)
hexlify(b) ==
    IF b = <<>> THEN <<>>
    ELSE <<Head(b) \div 16, Head(b) % 16>> \o hexlify(Tail(b))

\* values of data_coding_default_name_map
SMSC_DEFAULT_ALPHABET == 0
IA5_ASCII == 1
LATIN_1 == 3
UCS2 == 8

\* the replacement character of the error handler "replace"
REPLACEMENT == 65533

\* bytes.decode(codec, "replace"), for bytes below 224 (no three-byte UTF-8
\* lead) and UTF-16 units outside the surrogate range
RECURSIVE decode_ascii(_)
decode_ascii(b) ==
    IF b = <<>> THEN <<>>
    ELSE <<IF Head(b) < 128 THEN Head(b) ELSE REPLACEMENT>> \o decode_ascii(Tail(b))

RECURSIVE decode_utf16be(_)
decode_utf16be(b) ==
    IF b = <<>> THEN <<>>
    ELSE IF Len(b) = 1 THEN <<REPLACEMENT>>
    ELSE <<b[1] * 256 + b[2]>> \o decode_utf16be(Drop(b, 2))

RECURSIVE decode_utf8(_)
decode_utf8(b) ==
    IF b = <<>> THEN <<>>
    ELSE IF b[1] < 128 THEN <<b[1]>> \o decode_utf8(Tail(b))
    ELSE IF b[1] >= 194 /\ b[1] < 224 /\ Len(b) >= 2 /\ b[2] >= 128 /\ b[2] < 192
    THEN <<(b[1] % 32) * 64 + (b[2] % 64)>> \o decode_utf8(Drop(b, 2))
    ELSE <<REPLACEMENT>> \o decode_utf8(Tail(b))

\* Decode short_message: short_message_decoded starts as short_message and is
\* decoded only when data_coding is not None
DecodeShortMessage(data_coding, short_message) ==
    IF data_coding # NoValue
    THEN IF data_coding \in {SMSC_DEFAULT_ALPHABET, IA5_ASCII}
         THEN Str(decode_ascii(short_message))
         ELSE IF data_coding = LATIN_1 THEN Str(short_message)
         ELSE IF data_coding = UCS2 THEN Str(decode_utf16be(short_message))
         ELSE Str(decode_utf8(short_message))
    ELSE Bytes(short_message)

\* the bill of the Submission: the charges are the rates times sms_pages
Bill_single(amount_rate, sms_count_rate, sms_pages) ==
    [page_count       |-> sms_pages,
     amount_rate      |-> amount_rate,
     amount_charge    |-> amount_rate,
     sms_count_rate   |-> sms_count_rate,
     sms_count_charge |-> sms_count_rate]
Bill(amount_rate, sms_count_rate, sms_pages) ==
    [page_count       |-> sms_pages,
     amount_rate      |-> amount_rate,
     amount_charge    |-> amount_rate * sms_pages,
     sms_count_rate   |-> sms_count_rate,
     sms_count_charge |-> sms_count_rate * sms_pages]

NoDoc ==
    [kind |-> "none", raised |-> FALSE, data_coding |-> NoValue,
     page_count |-> 0, short_message |-> NoText, binary_message |-> NoText,
     short_message_decoded |-> NoText, bill |-> Bill(0, 0, 0), text |-> NoText]

\* log_data of the Submission branch; None * sms_pages raises when the
\* billing action decrement_submit_sm_count is absent
BuildSubmission_leak(msg) ==
    LET r == Reassemble(msg)
        short_message == r.short_message
        binary_message == hexlify(short_message)
        short_message_decoded == DecodeShortMessage(msg.data_coding, short_message)
    IN IF msg.sms_count_rate = NoValue
       THEN [NoDoc EXCEPT !.kind = "Submission", !.raised = TRUE]
       ELSE [kind |-> "Submission", raised |-> FALSE,
             data_coding |-> msg.data_coding,
             page_count |-> r.sms_pages,
             short_message |-> IF ~msg.privacy THEN Bytes(short_message)
                               ELSE Private("byte", Len(short_message)),
             binary_message |-> IF ~msg.privacy THEN Bytes(binary_message)
                                ELSE Private("byte", Len(binary_message)),
             short_message_decoded |-> short_message_decoded,
             bill |-> Bill(msg.amount_rate, msg.sms_count_rate, r.sms_pages),
             text |-> NoText]
BuildSubmission(msg) ==
    LET r == Reassemble(msg)
        short_message == r.short_message
        binary_message == hexlify(short_message)
        short_message_decoded == DecodeShortMessage(msg.data_coding, short_message)
        private_short_message == Private("byte", Len(short_message))
        private_binary_message == Private("byte", Len(binary_message))
        private_short_message_decoded ==
            Private("char", Len(short_message_decoded.data))
    IN IF msg.sms_count_rate = NoValue
       THEN [NoDoc EXCEPT !.kind = "Submission", !.raised = TRUE]
       ELSE [kind |-> "Submission", raised |-> FALSE,
             data_coding |-> msg.data_coding,
             page_count |-> r.sms_pages,
             short_message |-> IF ~msg.privacy THEN Bytes(short_message)
                               ELSE private_short_message,
             binary_message |-> IF ~msg.privacy THEN Bytes(binary_message)
                                ELSE private_binary_message,
             short_message_decoded |-> IF ~msg.privacy THEN short_message_decoded
                                       ELSE private_short_message_decoded,
             bill |-> Bill(msg.amount_rate, msg.sms_count_rate, r.sms_pages),
             text |-> NoText]

\* the dlr entry of the DeliveryReceipt branch: the copied headers, of which
\* text is the one that carries content
BuildDlr(msg) ==
    [NoDoc EXCEPT
        !.kind = "DeliveryReceipt",
        !.text = IF msg.privacy /\ msg.text # NoText /\ msg.text # Str(<<>>)
                 THEN Private("char", Len(msg.text.data))
                 ELSE msg.text]

BuildDocument(msg) ==
    IF msg.kind = "Submission" THEN BuildSubmission(msg) ELSE BuildDlr(msg)

\* the events explored: payloads with ASCII bytes and the UTF-8 bytes of one
\* two-byte character, whole and cut; first PDUs that start with nothing, a
\* 6-byte header with the 05 00 03 signature, the bare signature or a 7-byte
\* header of another kind; linked PDUs with and without such a header
PayloadSet == {<<>>, <<65>>, <<65, 65>>, <<195, 169>>, <<195>>}
UDH(seq) == <<5, 0, 3, 7, 2, seq>>
OTHER_UDH == <<6, 8, 4, 0, 7, 2, 1>>
FirstBodies == {h \o x : h \in {<<>>, UDH(1), UDH_SIGNATURE, OTHER_UDH},
                         x \in PayloadSet}
NextBodies == {<<65>>, UDH(2) \o <<195, 169>>, UDH_SIGNATURE}
Chains == UNION {{<<f>> \o t : f \in FirstBodies, t \in [1..m -> NextBodies]} :
                    m \in 0..(MaxChain - 1)}
DataCodings == {NoValue, SMSC_DEFAULT_ALPHABET, IA5_ASCII, LATIN_1, 4, UCS2}
Submissions ==
    [kind : {"Submission"}, chain : Chains, sar : BOOLEAN, sar_next : BOOLEAN,
     udhi : BOOLEAN,
     data_coding : DataCodings, privacy : BOOLEAN, amount_rate : {0, 3},
     sms_count_rate : {NoValue, 2}, text : {NoText}]
DlrTexts == {NoText, Str(<<>>), Str(<<65>>), Str(<<66>>), Str(<<65, 66>>)}
Dlrs ==
    [kind : {"DeliveryReceipt"}, chain : {<<<<>>>>}, sar : {FALSE},
     sar_next : {FALSE}, udhi : {FALSE},
     data_coding : {NoValue}, privacy : BOOLEAN, amount_rate : {0},
     sms_count_rate : {0}, text : DlrTexts]
NoMsg ==
    [kind |-> "none", chain |-> <<<<>>>>, sar |-> FALSE, sar_next |-> FALSE,
     udhi |-> FALSE,
     data_coding |-> NoValue, privacy |-> FALSE, amount_rate |-> 0,
     sms_count_rate |-> 0, text |-> NoText]

(* ---------------------- store (MongoDB collaborator) ------------------- *)
AbsentDoc == [exists |-> FALSE, fields |-> {}, sub |-> 0, ack |-> 0, dlr |-> <<>>]

\* upsert-merge of the keys carried by data into the document of id
update_one(docs, id, data) ==
    [docs EXCEPT ![id] =
        [exists |-> TRUE,
         fields |-> @.fields \cup data.fields,
         sub    |-> IF "sub" \in data.fields THEN data.sub ELSE @.sub,
         ack    |-> IF "ack" \in data.fields THEN data.ack ELSE @.ack,
         dlr    |-> IF "dlr" \in data.fields THEN data.dlr ELSE @.dlr]]

\* the stored document of id, AbsentDoc standing for None
get_one_submodule(docs, id) == docs[id]

(* ------------------------ processing of one event ---------------------- *)
BadKinds(rk) ==
    CASE Classify(rk) = "Submission"      -> {"no", "body", "bill"}
      [] Classify(rk) = "Acknowledgement" -> {"no", "body"}
      [] OTHER                            -> {"no"}

\* pickle.loads of the body (Submission, Acknowledgement) or of the billing
\* header (Submission) raises
DecodeRaises(ev) ==
    \/ Classify(ev.rk) = "Submission" /\ ev.bad \in {"body", "bill"}
    \/ Classify(ev.rk) = "Acknowledgement" /\ ev.bad = "body"

\* the store and broker calls of one pass of the consume loop, in code order
Plan_ackfirst(kind) ==
    CASE kind = "Submission"      -> <<"basic_ack", "update_log", "update_user">>
      [] kind = "Acknowledgement" -> <<"basic_ack", "update_log">>
      [] kind = "DeliveryReceipt" -> <<"basic_ack", "get_log", "update_log">>
      [] OTHER                    -> <<"basic_ack">>
Plan(kind) ==
    CASE kind = "Submission"      -> <<"update_log", "update_user", "basic_ack">>
      [] kind = "Acknowledgement" -> <<"update_log", "basic_ack">>
      [] kind = "DeliveryReceipt" -> <<"get_log", "update_log", "basic_ack">>
      [] OTHER                    -> <<"basic_ack">>

\* the document each kind hands to update_one for the log collection
LogData_overwrite(ev, qmsgDlrs) ==
    CASE Classify(ev.rk) = "Submission" ->
            [fields |-> {"sub", "bill"}, sub |-> ev.eid, ack |-> 0, dlr |-> <<>>]
      [] Classify(ev.rk) = "Acknowledgement" ->
            [fields |-> {"ack"}, sub |-> 0, ack |-> ev.eid, dlr |-> <<>>]
      [] OTHER ->
            [fields |-> {"dlr"}, sub |-> 0, ack |-> 0, dlr |-> <<ev.eid>>]
LogData(ev, qmsgDlrs) ==
    CASE Classify(ev.rk) = "Submission" ->
            [fields |-> {"sub", "bill"}, sub |-> ev.eid, ack |-> 0, dlr |-> <<>>]
      [] Classify(ev.rk) = "Acknowledgement" ->
            [fields |-> {"ack"}, sub |-> 0, ack |-> ev.eid, dlr |-> <<>>]
      [] OTHER ->
            [fields |-> {"dlr"}, sub |-> 0, ack |-> 0,
             dlr |-> Append(qmsgDlrs, ev.eid)]

\* effect of one completed call
ApplyOp_replace(op, ev, st) ==
    CASE op = "get_log" ->
            [st EXCEPT !.qmsgDlrs = get_one_submodule(st.docs, ev.id).dlr]
      [] op = "update_log" ->
            [st EXCEPT !.docs = update_one([st.docs EXCEPT ![ev.id] = AbsentDoc],
                                           ev.id, LogData(ev, st.qmsgDlrs))]
      [] op = "update_user" ->
            [st EXCEPT !.users = ev.eid]
      [] OTHER ->
            [st EXCEPT !.acked = TRUE]
ApplyOp(op, ev, st) ==
    CASE op = "get_log" ->
            [st EXCEPT !.qmsgDlrs = get_one_submodule(st.docs, ev.id).dlr]
      [] op = "update_log" ->
            [st EXCEPT !.docs = update_one(st.docs, ev.id, LogData(ev, st.qmsgDlrs))]
      [] op = "update_user" ->
            [st EXCEPT !.users = ev.eid]
      [] OTHER ->
            [st EXCEPT !.acked = TRUE]

RECURSIVE RunOps(_, _, _)
RunOps(ops, ev, st) ==
    IF ops = <<>> THEN st ELSE RunOps(Tail(ops), ev, ApplyOp(Head(ops), ev, st))

\* one pass of the loop body on event ev; failAt = 0 for no failure, k > 0
\* when the k-th call of the plan raises
ProcessEvent_onlyexisting(ev, docs, usr, failAt) ==
    LET plan == Plan(Classify(ev.rk))
        raises == DecodeRaises(ev) \/ failAt > 0
        tried == IF DecodeRaises(ev) THEN <<>>
                 ELSE IF failAt = 0 THEN plan ELSE SubSeq(plan, 1, failAt)
        all == IF DecodeRaises(ev) THEN <<>>
               ELSE IF failAt = 0 THEN plan ELSE SubSeq(plan, 1, failAt - 1)
        NotWrite(op) == op # "update_log"
        done == IF Classify(ev.rk) = "Acknowledgement" /\ ~docs[ev.id].exists
                THEN SelectSeq(all, NotWrite) ELSE all
        st == RunOps(done, ev,
                     [docs |-> docs, users |-> usr, acked |-> FALSE,
                      qmsgDlrs |-> <<>>])
    IN [ops |-> tried, raised |-> raises, acked |-> st.acked,
        docs |-> st.docs, users |-> st.users,
        connLost |-> (~DecodeRaises(ev) /\ failAt > 0
                      /\ plan[failAt] = "basic_ack")]
ProcessEvent(ev, docs, usr, failAt) ==
    LET plan == Plan(Classify(ev.rk))
        raises == DecodeRaises(ev) \/ failAt > 0
        tried == IF DecodeRaises(ev) THEN <<>>
                 ELSE IF failAt = 0 THEN plan ELSE SubSeq(plan, 1, failAt)
        done == IF DecodeRaises(ev) THEN <<>>
                ELSE IF failAt = 0 THEN plan ELSE SubSeq(plan, 1, failAt - 1)
        st == RunOps(done, ev,
                     [docs |-> docs, users |-> usr, acked |-> FALSE,
                      qmsgDlrs |-> <<>>])
    IN [ops |-> tried, raised |-> raises, acked |-> st.acked,
        docs |-> st.docs, users |-> st.users,
        connLost |-> (~DecodeRaises(ev) /\ failAt > 0
                      /\ plan[failAt] = "basic_ack")]


(* -------------------------------- state -------------------------------- *)
VARIABLES
    cfg,                        \* constructor arguments: retry, max_retries
    RETRY_ON_CONNECTION_ERROR,  \* self.RETRY_ON_CONNECTION_ERROR
    RETRY_FOREVER,              \* self.RETRY_FOREVER
    amqp_broker_max_retries,    \* self.amqp_broker_max_retries
    mongo_max_retries,          \* self.mongo_max_retries
    pc,                         \* position of the single task
    running,                    \* reactor.running
    timers,                     \* pending callLater(RETRY_DELAY, rabbitMQConnect)
    conn,                       \* connection of the current session
    zombies,                    \* connections of ended sessions still open
    mongosource,                \* store handle of the current session, or None
    brokerQueue,                \* events ready in the broker queue
    inbox,                      \* events pushed to the consumer, not yet acked
    zombieHeld,                 \* unacked events held by zombie connections
    acked,                      \* eids acknowledged to the broker
    store,                      \* log collection: message id -> document
    users,                      \* user collection: balance document of the user
    last,                       \* the last pass of the consume loop
    nPublished,                 \* events published so far
    nConnFail,                  \* failures handled by ConError
    nMidFail,                   \* failures handled at the end of gotConnection
    nStoreFail,                 \* failed store connect attempts
    nStoreRetry,                \* store connect attempts made inside the retry loop
    nScheduled,                 \* reconnects scheduled (callLater calls)
    nConnects,                  \* calls of rabbitMQConnect
    nStop,                      \* calls of StopReactor
    stopCause,                  \* why StopReactor was called
    interrupted,                \* a user interrupt has happened
    sanIn,                      \* the document handed to the sanitizer
    sanDoc,                     \* that document after sanN sanitizations
    sanN,                       \* sanitizations made on it
    msgIn,                      \* the content of an event whose document is built
    docOut                      \* the document built from it, NoDoc before

vars == <<cfg, RETRY_ON_CONNECTION_ERROR, RETRY_FOREVER, amqp_broker_max_retries,
          mongo_max_retries, pc, running, timers, conn, zombies, mongosource,
          brokerQueue, inbox, zombieHeld, acked, store, users, last,
          nPublished, nConnFail, nMidFail, nStoreFail, nStoreRetry, nScheduled,
          nConnects, nStop, stopCause, interrupted, sanIn, sanDoc, sanN,
          msgIn, docOut>>

buildVars  == <<msgIn, docOut>>
sanVars    == <<sanIn, sanDoc, sanN>>
cfgVars    == <<cfg, RETRY_FOREVER>>
brokerVars == <<brokerQueue, inbox, zombieHeld, acked>>
storeVars  == <<store, users>>
histVars   == <<nPublished, nConnFail, nMidFail, nStoreFail, nStoreRetry,
                nScheduled, nConnects, nStop, stopCause, interrupted>>

\* last: the event of the pass, the session (rabbitMQConnect number) it ran
\* in, the calls it tried in order, whether it raised, whether it acked
NoPass == [eid |-> 0, session |-> 0, kind |-> "none", ops |-> <<>>,
           raised |-> FALSE, acked |-> FALSE]

\* LogReactor.__init__
Init ==
    /\ cfg \in [retry : BOOLEAN, max_retries : RetryChoices]
    /\ RETRY_ON_CONNECTION_ERROR = cfg.retry
    /\ amqp_broker_max_retries = cfg.max_retries
    /\ mongo_max_retries = cfg.max_retries
    /\ RETRY_FOREVER = RetryForeverOf(cfg.max_retries)
    /\ pc = "init"
    /\ running = FALSE
    /\ timers = 0
    /\ conn = "none"
    /\ zombies = 0
    /\ mongosource = None
    /\ brokerQueue = <<>>
    /\ inbox = <<>>
    /\ zombieHeld = <<>>
    /\ acked = {}
    /\ store = [i \in MessageIds |-> AbsentDoc]
    /\ users = 0
    /\ last = NoPass
    /\ nPublished = 0
    /\ nConnFail = 0
    /\ nMidFail = 0
    /\ nStoreFail = 0
    /\ nStoreRetry = 0
    /\ nScheduled = 0
    /\ nConnects = 0
    /\ nStop = 0
    /\ stopCause = "none"
    /\ interrupted = FALSE
    /\ sanIn = Dict(<<>>)
    /\ sanDoc = Dict(<<>>)
    /\ sanN = 0
    /\ msgIn = NoMsg
    /\ docOut = NoDoc

(* ------------------------------ operations ----------------------------- *)
\* rabbitMQConnect: a new connectTCP is in flight, gotConnection and ConError
\* are its callbacks
rabbitMQConnect ==
    /\ pc' = "connecting"
    /\ nConnects' = nConnects + 1

\* StopReactor: cleanConnectionBreak() on the connection c, reactor.stop()
StopReactor(cause, c) ==
    /\ conn' = cleanConnectionBreak(c)
    /\ running' = FALSE
    /\ nStop' = nStop + 1
    /\ stopCause' = cause
    /\ pc' = "idle"

\* startReactor: rabbitMQConnect() then reactor.run()
startReactor ==
    /\ pc = "init"
    /\ rabbitMQConnect
    /\ running' = TRUE
    /\ UNCHANGED <<buildVars, sanVars, cfgVars, RETRY_ON_CONNECTION_ERROR, amqp_broker_max_retries,
                   mongo_max_retries, timers, conn, zombies, mongosource,
                   brokerVars, storeVars, last, nPublished, nConnFail, nMidFail,
                   nStoreFail, nStoreRetry, nScheduled, nStop, stopCause,
                   interrupted>>

\* body of ConError after the logging: cleanConnectionBreak(), then stop, or
\* decrement and schedule; c is the state of the connection
ConErrorBody(c) ==
    IF ConErrorShouldStop(RETRY_ON_CONNECTION_ERROR, amqp_broker_max_retries,
                          RETRY_FOREVER)
    THEN /\ StopReactor("broker", cleanConnectionBreak(c))
         /\ UNCHANGED <<amqp_broker_max_retries, timers, nScheduled>>
    ELSE /\ amqp_broker_max_retries' = amqp_broker_max_retries - 1
         /\ timers' = timers + 1
         /\ nScheduled' = nScheduled + 1
         /\ conn' = cleanConnectionBreak(c)
         /\ pc' = "idle"
         /\ UNCHANGED <<running, nStop, stopCause>>

\* the part of gotConnection after the try statement; retry is the value of
\* RETRY_ON_CONNECTION_ERROR left by the except clauses
GotConnectionEnd_twice(retry, cause, c) ==
    IF GotConnectionShouldStop(retry, amqp_broker_max_retries, RETRY_FOREVER)
    THEN /\ StopReactor(cause, c)
         /\ UNCHANGED <<amqp_broker_max_retries, timers, nScheduled>>
    ELSE /\ amqp_broker_max_retries' = amqp_broker_max_retries - 1
         /\ conn' = cleanConnectionBreak(c)
         /\ timers' = timers + 2
         /\ nScheduled' = nScheduled + 1
         /\ pc' = "idle"
         /\ UNCHANGED <<running, nStop, stopCause>>
GotConnectionEnd(retry, cause, c) ==
    IF GotConnectionShouldStop(retry, amqp_broker_max_retries, RETRY_FOREVER)
    THEN /\ StopReactor(cause, c)
         /\ UNCHANGED <<amqp_broker_max_retries, timers, nScheduled>>
    ELSE /\ amqp_broker_max_retries' = amqp_broker_max_retries - 1
         /\ conn' = cleanConnectionBreak(c)
         /\ timers' = timers + 1
         /\ nScheduled' = nScheduled + 1
         /\ pc' = "idle"
         /\ UNCHANGED <<running, nStop, stopCause>>

BrokerFailures == nConnFail + nMidFail

\* failures of the broker and of the store explored in one run
Failures == nConnFail + nMidFail + nStoreFail


\* connectTCP fails: the errback ConError runs
ConnectFail ==
    /\ pc = "connecting" /\ running
    /\ Failures < FailureCap
    /\ nConnFail' = nConnFail + 1
    /\ ConErrorBody(conn)
    /\ UNCHANGED <<buildVars, sanVars, cfgVars, RETRY_ON_CONNECTION_ERROR, mongo_max_retries, zombies,
                   mongosource, brokerVars, storeVars, last, nPublished, nMidFail,
                   nStoreFail, nStoreRetry, nConnects, interrupted>>

\* connectTCP succeeds: gotConnection starts on a new connection; a previous
\* connection that was never closed stays open, holding its unacked events
ConnectOK_reset ==
    /\ pc = "connecting" /\ running
    /\ pc' = "setup"
    /\ conn' = "open"
    /\ mongosource' = None
    /\ amqp_broker_max_retries' = cfg.max_retries
    /\ zombies' = IF conn \in {"open", "consuming"} THEN zombies + 1 ELSE zombies
    /\ zombieHeld' = zombieHeld \o inbox
    /\ inbox' = <<>>
    /\ UNCHANGED <<buildVars, sanVars, cfgVars, RETRY_ON_CONNECTION_ERROR,
                   mongo_max_retries, running, timers, brokerQueue,
                   acked, storeVars, last, histVars>>
ConnectOK ==
    /\ pc = "connecting" /\ running
    /\ pc' = "setup"
    /\ conn' = "open"
    /\ mongosource' = None
    /\ zombies' = IF conn \in {"open", "consuming"} THEN zombies + 1 ELSE zombies
    /\ zombieHeld' = zombieHeld \o inbox
    /\ inbox' = <<>>
    /\ UNCHANGED <<buildVars, sanVars, cfgVars, RETRY_ON_CONNECTION_ERROR, amqp_broker_max_retries,
                   mongo_max_retries, running, timers, brokerQueue,
                   acked, storeVars, last, histVars>>

\* a step of gotConnection before the try statement raises (authentication,
\* channel, queue or binding): the failure reaches the errback ConError
SetupFail ==
    /\ pc = "setup" /\ running
    /\ Failures < FailureCap
    /\ nConnFail' = nConnFail + 1
    /\ \E lost \in BOOLEAN : ConErrorBody(IF lost THEN "lost" ELSE conn)
    /\ UNCHANGED <<buildVars, sanVars, cfgVars, RETRY_ON_CONNECTION_ERROR, mongo_max_retries, zombies,
                   mongosource, brokerVars, storeVars, last, nPublished, nMidFail,
                   nStoreFail, nStoreRetry, nConnects, interrupted>>

\* gotConnection up to conn.queue(): authenticated, channel open, queue
\* declared and bound, consumer started; the broker pushes the ready events
SetupOK ==
    /\ pc = "setup" /\ running
    /\ pc' = "mongo"
    /\ conn' = "consuming"
    /\ inbox' = brokerQueue
    /\ brokerQueue' = <<>>
    /\ UNCHANGED <<buildVars, sanVars, cfgVars, RETRY_ON_CONNECTION_ERROR, amqp_broker_max_retries,
                   mongo_max_retries, running, timers, zombies, mongosource,
                   zombieHeld, acked, storeVars, last, histVars>>

\* what follows a store connect attempt that returned src with cnt retries
\* left: another round of the retry loop, StopReactor, or the consume loop
AfterMongoAttempt(src, cnt) ==
    IF MongoLoopCond(src, RETRY_ON_CONNECTION_ERROR, cnt, RETRY_FOREVER)
    THEN /\ pc' = "mongo_retry"
         /\ UNCHANGED <<running, conn, nStop, stopCause>>
    ELSE IF MongoFatal(src)
    THEN StopReactor("store", conn)
    ELSE /\ pc' = "consuming"
         /\ UNCHANGED <<running, conn, nStop, stopCause>>

\* the first _connect_to_mongo of gotConnection
MongoConnect_reset ==
    /\ pc = "mongo" /\ running
    /\ mongo_max_retries' = cfg.max_retries
    /\ \E ok \in BOOLEAN :
        /\ ok \/ Failures < FailureCap
        /\ mongosource' = connect_to_mongo(ok)
        /\ nStoreFail' = IF ok THEN nStoreFail ELSE nStoreFail + 1
        /\ AfterMongoAttempt(connect_to_mongo(ok), cfg.max_retries)
    /\ UNCHANGED <<buildVars, sanVars, cfgVars, RETRY_ON_CONNECTION_ERROR, amqp_broker_max_retries,
                   timers, zombies, brokerVars, storeVars,
                   last, nPublished, nConnFail, nMidFail, nStoreRetry,
                   nScheduled, nConnects, interrupted>>
MongoConnect ==
    /\ pc = "mongo" /\ running
    /\ \E ok \in BOOLEAN :
        /\ ok \/ Failures < FailureCap
        /\ mongosource' = connect_to_mongo(ok)
        /\ nStoreFail' = IF ok THEN nStoreFail ELSE nStoreFail + 1
        /\ AfterMongoAttempt(connect_to_mongo(ok), mongo_max_retries)
    /\ UNCHANGED <<buildVars, sanVars, cfgVars, RETRY_ON_CONNECTION_ERROR, amqp_broker_max_retries,
                   mongo_max_retries, timers, zombies, brokerVars, storeVars,
                   last, nPublished, nConnFail, nMidFail, nStoreRetry,
                   nScheduled, nConnects, interrupted>>

\* one round of the retry loop: sleep, _connect_to_mongo, mongo_max_retries -= 1
MongoRetry_shared ==
    /\ pc = "mongo_retry" /\ running
    /\ \E ok \in BOOLEAN :
        /\ ok \/ Failures < FailureCap
        /\ mongosource' = connect_to_mongo(ok)
        /\ nStoreFail' = IF ok THEN nStoreFail ELSE nStoreFail + 1
        /\ amqp_broker_max_retries' = amqp_broker_max_retries - 1
        /\ nStoreRetry' = nStoreRetry + 1
        /\ AfterMongoAttempt(connect_to_mongo(ok), amqp_broker_max_retries - 1)
    /\ UNCHANGED <<buildVars, sanVars, cfgVars, RETRY_ON_CONNECTION_ERROR, mongo_max_retries,
                   timers, zombies, brokerVars, storeVars, last, nPublished,
                   nConnFail, nMidFail, nScheduled, nConnects, interrupted>>
MongoRetry ==
    /\ pc = "mongo_retry" /\ running
    /\ \E ok \in BOOLEAN :
        /\ ok \/ Failures < FailureCap
        /\ mongosource' = connect_to_mongo(ok)
        /\ nStoreFail' = IF ok THEN nStoreFail ELSE nStoreFail + 1
        /\ mongo_max_retries' = mongo_max_retries - 1
        /\ nStoreRetry' = nStoreRetry + 1
        /\ AfterMongoAttempt(connect_to_mongo(ok), mongo_max_retries - 1)
    /\ UNCHANGED <<buildVars, sanVars, cfgVars, RETRY_ON_CONNECTION_ERROR, amqp_broker_max_retries,
                   timers, zombies, brokerVars, storeVars, last, nPublished,
                   nConnFail, nMidFail, nScheduled, nConnects, interrupted>>

\* the gateway publishes an event; the broker pushes it at once to a started
\* consumer (basic_consume with no_ack=False and no prefetch limit), else the
\* event waits in the queue
Publish ==
    /\ running
    /\ nPublished < MaxPublish
    /\ \E rk \in RoutingKeys, id \in MessageIds :
        \E bad \in BadKinds(rk) :
            LET ev == [eid |-> nPublished + 1, rk |-> rk, id |-> id, bad |-> bad]
            IN IF conn = "consuming"
               THEN inbox' = Append(inbox, ev) /\ UNCHANGED brokerQueue
               ELSE brokerQueue' = Append(brokerQueue, ev) /\ UNCHANGED inbox
    /\ nPublished' = nPublished + 1
    /\ UNCHANGED <<buildVars, sanVars, cfgVars, RETRY_ON_CONNECTION_ERROR, amqp_broker_max_retries,
                   mongo_max_retries, pc, running, timers, conn, zombies,
                   mongosource, zombieHeld, acked, storeVars, last,
                   nConnFail, nMidFail, nStoreFail, nStoreRetry, nScheduled,
                   nConnects, nStop, stopCause, interrupted>>

\* the zombie connections are dropped: the broker requeues what they held
\* and pushes it to a started consumer
ZombieLost ==
    /\ running
    /\ zombies > 0
    /\ zombies' = 0
    /\ zombieHeld' = <<>>
    /\ IF conn = "consuming"
       THEN inbox' = inbox \o zombieHeld /\ UNCHANGED brokerQueue
       ELSE brokerQueue' = zombieHeld \o brokerQueue /\ UNCHANGED inbox
    /\ UNCHANGED <<buildVars, sanVars, cfgVars, RETRY_ON_CONNECTION_ERROR, amqp_broker_max_retries,
                   mongo_max_retries, pc, running, timers, conn, mongosource,
                   acked, storeVars, last, histVars>>

\* one pass of the consume loop: queue.get(), the branch of the routing key,
\* basic_ack; when a call raises, the except clauses and the end of
\* gotConnection follow
Consume ==
    /\ pc = "consuming" /\ running
    /\ inbox # <<>>
    /\ \E failAt \in 0..Len(Plan(Classify(Head(inbox).rk))) :
        LET ev == Head(inbox)
            r == ProcessEvent(ev, store, users, failAt)
        IN /\ last' = [eid |-> ev.eid, session |-> nConnects,
                       kind |-> Classify(ev.rk), ops |-> r.ops,
                       raised |-> r.raised, acked |-> r.acked]
           /\ store' = r.docs
           /\ users' = r.users
           /\ acked' = IF r.acked THEN acked \cup {ev.eid} ELSE acked
           /\ IF ~r.raised
              THEN /\ inbox' = Tail(inbox)
                   /\ UNCHANGED <<brokerQueue, pc, conn, running, timers,
                                  amqp_broker_max_retries, nMidFail, nScheduled,
                                  nStop, stopCause>>
              ELSE /\ Failures < FailureCap
                   /\ nMidFail' = nMidFail + 1
                   /\ IF r.connLost
                      THEN /\ brokerQueue' =
                                (IF r.acked THEN Tail(inbox) ELSE inbox) \o brokerQueue
                           /\ inbox' = <<>>
                           /\ GotConnectionEnd(RETRY_ON_CONNECTION_ERROR, "broker",
                                               "lost")
                      ELSE /\ inbox' = IF r.acked THEN Tail(inbox) ELSE inbox
                           /\ UNCHANGED brokerQueue
                           /\ GotConnectionEnd(RETRY_ON_CONNECTION_ERROR, "broker",
                                               conn)
    /\ UNCHANGED <<buildVars, sanVars, cfgVars, RETRY_ON_CONNECTION_ERROR, mongo_max_retries, zombies,
                   mongosource, zombieHeld, nPublished, nConnFail, nStoreFail,
                   nStoreRetry, nConnects, interrupted>>

\* the connection is lost while the loop waits in queue.get(): the get raises,
\* the broker requeues the unacked events
QueueClosed ==
    /\ pc = "consuming" /\ running
    /\ Failures < FailureCap
    /\ nMidFail' = nMidFail + 1
    /\ brokerQueue' = inbox \o brokerQueue
    /\ inbox' = <<>>
    /\ GotConnectionEnd(RETRY_ON_CONNECTION_ERROR, "broker", "lost")
    /\ UNCHANGED <<buildVars, sanVars, cfgVars, RETRY_ON_CONNECTION_ERROR, mongo_max_retries, zombies,
                   mongosource, zombieHeld, acked, storeVars, last, nPublished,
                   nConnFail, nStoreFail, nStoreRetry, nConnects, interrupted>>

\* KeyboardInterrupt inside the try statement of gotConnection: reconnecting
\* is switched off, then the end of gotConnection runs
InterruptConsume ==
    /\ pc = "consuming" /\ running
    /\ RETRY_ON_CONNECTION_ERROR' = FALSE
    /\ interrupted' = TRUE
    /\ GotConnectionEnd(FALSE, "interrupt", conn)
    /\ UNCHANGED <<buildVars, sanVars, cfgVars, mongo_max_retries, zombies, mongosource, brokerVars,
                   storeVars, last, nPublished, nConnFail, nMidFail, nStoreFail,
                   nStoreRetry, nConnects>>

\* KeyboardInterrupt at the yield of reactor.callLater (gotConnection, ConError):
\* StopReactor, with the timer already set
InterruptDelay ==
    /\ pc = "idle" /\ running
    /\ timers > 0
    /\ interrupted' = TRUE
    /\ StopReactor("interrupt", conn)
    /\ UNCHANGED <<buildVars, sanVars, cfgVars, RETRY_ON_CONNECTION_ERROR, amqp_broker_max_retries,
                   mongo_max_retries, timers, zombies, mongosource, brokerVars,
                   storeVars, last, nPublished, nConnFail, nMidFail, nStoreFail,
                   nStoreRetry, nScheduled, nConnects>>

\* the delayed call fires: rabbitMQConnect
TimerFire ==
    /\ running
    /\ timers > 0
    /\ timers' = timers - 1
    /\ rabbitMQConnect
    /\ UNCHANGED <<buildVars, sanVars, cfgVars, RETRY_ON_CONNECTION_ERROR, amqp_broker_max_retries,
                   mongo_max_retries, running, conn, zombies, mongosource,
                   brokerVars, storeVars, last, nPublished, nConnFail, nMidFail,
                   nStoreFail, nStoreRetry, nScheduled, nStop, stopCause,
                   interrupted>>

Next ==
    \/ startReactor
    \/ ConnectFail
    \/ ConnectOK
    \/ SetupFail
    \/ SetupOK
    \/ MongoConnect
    \/ MongoRetry
    \/ Publish
    \/ ZombieLost
    \/ Consume
    \/ QueueClosed
    \/ InterruptConsume
    \/ InterruptDelay
    \/ TimerFire

Spec == Init /\ [][Next]_vars

\* the reactor runs its callbacks: a started reactor calls what is due (the
\* reconnect timer, the callback of connectTCP), and a coroutine that waits
\* for the broker's or the store's answer goes on when the answer is there;
\* the failures of a run are finitely many (Failures < FailureCap), after
\* them the broker and the store answer
Fairness ==
    /\ WF_vars(startReactor)
    /\ WF_vars(TimerFire)
    /\ WF_vars(ConnectOK)
    /\ WF_vars(SetupOK)
    /\ WF_vars(MongoConnect)
    /\ WF_vars(MongoRetry)

SpecLive == Init /\ [][Next]_vars /\ Fairness

(* ------------------- one pass on an arbitrary routing key --------------- *)
\* routing keys around the three prefixes the if/elif chain tests: each
\* prefix whole, without its last dot and cut short, followed by nothing, a
\* connector id, a dot or another prefix's word
KeyHeads == {<<>>, SUBMIT_SM_PREFIX, SUBMIT_SM_RESP_PREFIX, DLR_THROWER_PREFIX,
             SubSeq(SUBMIT_SM_PREFIX, 1, 9), SubSeq(SUBMIT_SM_RESP_PREFIX, 1, 14),
             SubSeq(DLR_THROWER_PREFIX, 1, 11), SubSeq(RK_OTHER, 1, 11),
             SubSeq(SUBMIT_SM_PREFIX, 1, 7)}
KeyTails == {<<>>, <<"c","1">>, <<".">>, <<"r","e","s","p">>,
             <<"r","e","s","p",".">>, <<"r","e","s","p",".","c","1">>}
ClassifyKeys == {h \o t : h \in KeyHeads, t \in KeyTails}

\* the state gotConnection is in when its first queue.get() returns: started,
\* connected, consumer registered, store handle obtained, one event delivered
InitRouter ==
    /\ cfg \in [retry : BOOLEAN, max_retries : RetryChoices]
    /\ RETRY_ON_CONNECTION_ERROR = cfg.retry
    /\ amqp_broker_max_retries = cfg.max_retries
    /\ mongo_max_retries = cfg.max_retries
    /\ RETRY_FOREVER = RetryForeverOf(cfg.max_retries)
    /\ pc = "consuming"
    /\ running = TRUE
    /\ timers = 0
    /\ conn = "consuming"
    /\ zombies = 0
    /\ mongosource = Handle
    /\ brokerQueue = <<>>
    /\ \E rk \in ClassifyKeys, id \in MessageIds :
          \E bad \in BadKinds(rk) :
              inbox = <<[eid |-> 1, rk |-> rk, id |-> id, bad |-> bad]>>
    /\ zombieHeld = <<>>
    /\ acked = {}
    /\ store = [i \in MessageIds |-> AbsentDoc]
    /\ users = 0
    /\ last = NoPass
    /\ nPublished = 1
    /\ nConnFail = 0
    /\ nMidFail = 0
    /\ nStoreFail = 0
    /\ nStoreRetry = 0
    /\ nScheduled = 0
    /\ nConnects = 1
    /\ nStop = 0
    /\ stopCause = "none"
    /\ interrupted = FALSE
    /\ sanIn = Dict(<<>>)
    /\ sanDoc = Dict(<<>>)
    /\ sanN = 0
    /\ msgIn = NoMsg
    /\ docOut = NoDoc

SpecRouter == InitRouter /\ [][Consume]_vars

(* ------------------------ sanitizing one document ----------------------- *)
\* a document is handed to the sanitizer; the reactor itself is at rest
InitSanitize ==
    /\ cfg = [retry |-> FALSE, max_retries |-> 0]
    /\ RETRY_ON_CONNECTION_ERROR = cfg.retry
    /\ amqp_broker_max_retries = cfg.max_retries
    /\ mongo_max_retries = cfg.max_retries
    /\ RETRY_FOREVER = RetryForeverOf(cfg.max_retries)
    /\ pc = "init"
    /\ running = FALSE
    /\ timers = 0
    /\ conn = "none"
    /\ zombies = 0
    /\ mongosource = None
    /\ brokerQueue = <<>>
    /\ inbox = <<>>
    /\ zombieHeld = <<>>
    /\ acked = {}
    /\ store = [i \in MessageIds |-> AbsentDoc]
    /\ users = 0
    /\ last = NoPass
    /\ nPublished = 0
    /\ nConnFail = 0
    /\ nMidFail = 0
    /\ nStoreFail = 0
    /\ nStoreRetry = 0
    /\ nScheduled = 0
    /\ nConnects = 0
    /\ nStop = 0
    /\ stopCause = "none"
    /\ interrupted = FALSE
    /\ sanIn \in Docs
    /\ sanDoc = sanIn
    /\ sanN = 0
    /\ msgIn = NoMsg
    /\ docOut = NoDoc

\* self.replace_none(data); self.fix_keys(data)
SanitizeStep ==
    /\ sanN < MaxPasses
    /\ sanDoc' = Sanitize(sanDoc)
    /\ sanN' = sanN + 1
    /\ UNCHANGED <<buildVars, sanIn, cfgVars, RETRY_ON_CONNECTION_ERROR,
                   amqp_broker_max_retries, mongo_max_retries, pc, running,
                   timers, conn, zombies, mongosource, brokerVars, storeVars,
                   last, histVars>>

SpecSanitize == InitSanitize /\ [][SanitizeStep]_vars

\* self.replace_none(data) alone
ReplaceNoneStep ==
    /\ sanN < MaxPasses
    /\ sanDoc' = replace_none(sanDoc)
    /\ sanN' = sanN + 1
    /\ UNCHANGED <<buildVars, sanIn, cfgVars, RETRY_ON_CONNECTION_ERROR,
                   amqp_broker_max_retries, mongo_max_retries, pc, running,
                   timers, conn, zombies, mongosource, brokerVars, storeVars,
                   last, histVars>>

SpecReplaceNone == InitSanitize /\ [][ReplaceNoneStep]_vars

(* -------------------- building the document of one event --------------- *)
\* a decoded Submission or DeliveryReceipt is at hand; the reactor itself is
\* at rest
InitBuild ==
    /\ cfg = [retry |-> FALSE, max_retries |-> 0]
    /\ RETRY_ON_CONNECTION_ERROR = cfg.retry
    /\ amqp_broker_max_retries = cfg.max_retries
    /\ mongo_max_retries = cfg.max_retries
    /\ RETRY_FOREVER = RetryForeverOf(cfg.max_retries)
    /\ pc = "init"
    /\ running = FALSE
    /\ timers = 0
    /\ conn = "none"
    /\ zombies = 0
    /\ mongosource = None
    /\ brokerQueue = <<>>
    /\ inbox = <<>>
    /\ zombieHeld = <<>>
    /\ acked = {}
    /\ store = [i \in MessageIds |-> AbsentDoc]
    /\ users = 0
    /\ last = NoPass
    /\ nPublished = 0
    /\ nConnFail = 0
    /\ nMidFail = 0
    /\ nStoreFail = 0
    /\ nStoreRetry = 0
    /\ nScheduled = 0
    /\ nConnects = 0
    /\ nStop = 0
    /\ stopCause = "none"
    /\ interrupted = FALSE
    /\ sanIn = Dict(<<>>)
    /\ sanDoc = Dict(<<>>)
    /\ sanN = 0
    /\ msgIn \in Submissions \cup Dlrs
    /\ docOut = NoDoc

\* the Submission branch up to log_data, the DeliveryReceipt branch up to dlr
BuildStep ==
    /\ docOut = NoDoc
    /\ docOut' = BuildDocument(msgIn)
    /\ UNCHANGED <<msgIn, sanVars, cfgVars, RETRY_ON_CONNECTION_ERROR,
                   amqp_broker_max_retries, mongo_max_retries, pc, running,
                   timers, conn, zombies, mongosource, brokerVars, storeVars,
                   last, histVars>>

SpecBuild == InitBuild /\ [][BuildStep]_vars

TypeOK ==
    /\ pc \in {"init", "connecting", "setup", "mongo", "mongo_retry",
               "consuming", "idle"}
    /\ conn \in {"none", "open", "consuming", "lost"}
    /\ mongosource \in {None, Handle}
    /\ timers \in 0..1
    /\ running \in BOOLEAN


(* ------------------------------ properties ----------------------------- *)
Min(a, b) == IF a < b THEN a ELSE b

\* C1: with retries enabled and a bounded max_retries = N > 0, when all broker
\* failures are connect failures handled by ConError, each of the first N
\* schedules exactly one reconnect, the (N+1)-th calls StopReactor exactly
\* once, and after it no timer is pending and the reactor is stopped
C1_BoundedConnectRetries ==
    (cfg.retry /\ cfg.max_retries > 0 /\ nMidFail = 0 /\ ~interrupted
        /\ stopCause # "store") =>
        /\ nConnFail <= cfg.max_retries + 1
        /\ nScheduled = Min(nConnFail, cfg.max_retries)
        /\ nStop = (IF nConnFail = cfg.max_retries + 1 THEN 1 ELSE 0)
        /\ (nStop = 1 => ~running /\ timers = 0)

C1_Witness ==
    /\ cfg.retry /\ cfg.max_retries = MaxRetries
    /\ nMidFail = 0 /\ ~interrupted
    /\ nConnFail = MaxRetries + 1
    /\ nScheduled = MaxRetries
    /\ nStop = 1 /\ stopCause = "broker"


\* store writes each kind of event makes before it is acknowledged
RequiredWrites(kind) ==
    CASE kind = "Submission"      -> 2
      [] kind = "Acknowledgement" -> 1
      [] kind = "DeliveryReceipt" -> 1
      [] OTHER                    -> 0

WritesIn(ops) == Cardinality({i \in DOMAIN ops : ops[i] \in {"update_log", "update_user"}})

\* C2: in every pass of the consume loop basic_ack comes after all storage
\* writes of the event have been attempted, never before, and a pass that ends
\* in a failure does not acknowledge its event
C2_AckAfterWrites ==
    /\ \A i \in DOMAIN last.ops :
          last.ops[i] = "basic_ack" =>
              /\ i = Len(last.ops)
              /\ WritesIn(SubSeq(last.ops, 1, i - 1)) = RequiredWrites(last.kind)
    /\ last.acked => (~last.raised /\ last.ops # <<>>
                        /\ last.ops[Len(last.ops)] = "basic_ack")
    /\ last.raised => (~last.acked /\ last.eid \notin acked)

C2_Witness ==
    /\ last.kind = "Submission"
    /\ last.acked
    /\ last.eid \in acked
    /\ last.ops = <<"update_log", "update_user", "basic_ack">>
    /\ store[1].exists /\ users # 0

\* an event whose content cannot be processed, or whose routing key is unknown
Malformed(ev) == DecodeRaises(ev) \/ Classify(ev.rk) = "Unknown"

\* C3: a pass of the consume loop on a malformed event (body or billing
\* payload that cannot be deserialized, unknown routing key), with no
\* transport failure in its store and broker calls, acknowledges the event and
\* leaves the loop consuming
C3_MalformedAckedLoopGoesOn ==
    [][(last' # last /\ Malformed(Head(inbox))
            /\ (last'.ops = <<>> \/ ~last'.raised)) =>
            (last'.acked /\ Head(inbox).eid \in acked' /\ pc' = "consuming"
                /\ running')]_vars

\* C4: a failure raised while processing one event's content does not reach
\* the broker supervisor: the loop stays consuming, the broker retry counter
\* keeps its value, no reconnect is scheduled and the reactor is not stopped
C4_PerEventFailureContained ==
    [][(last' # last /\ DecodeRaises(Head(inbox))) =>
            /\ pc' = "consuming"
            /\ amqp_broker_max_retries' = amqp_broker_max_retries
            /\ timers' = timers
            /\ running']_vars

\* C5: connect-time failures (ConError) and mid-stream failures (end of
\* gotConnection) share one counter and one rule: with bounded max_retries = N
\* the first N failures of either kind schedule a reconnect and the (N+1)-th
\* stops the reactor; with retries disabled the first failure stops it and no
\* reconnect is ever scheduled
C5_SharedRetryRule ==
    /\ (cfg.retry /\ cfg.max_retries > 0) =>
          /\ BrokerFailures <= cfg.max_retries + 1
          /\ nScheduled = Min(BrokerFailures, cfg.max_retries)
          /\ (BrokerFailures = cfg.max_retries + 1 =>
                ~running /\ nStop = 1 /\ stopCause = "broker")
          /\ (stopCause = "broker" => BrokerFailures = cfg.max_retries + 1)
    /\ ~cfg.retry =>
          /\ BrokerFailures <= 1
          /\ nScheduled = 0 /\ timers = 0
          /\ (BrokerFailures = 1 => ~running /\ nStop = 1 /\ stopCause = "broker")

C5_Witness ==
    /\ cfg.retry /\ cfg.max_retries = MaxRetries
    /\ nConnFail >= 1 /\ nMidFail >= 1
    /\ BrokerFailures = MaxRetries + 1
    /\ nScheduled = MaxRetries
    /\ ~running /\ stopCause = "broker"

\* C6: with retries enabled and max_retries <= 0 no broker or store failure
\* stops the reactor: every broker failure schedules a reconnect, every failed
\* store connect is followed by a retry, only a user interrupt stops
C6_UnboundedNeverStops ==
    (cfg.retry /\ cfg.max_retries <= 0) =>
        /\ nScheduled = BrokerFailures
        /\ nStoreFail = nStoreRetry + (IF pc = "mongo_retry" THEN 1 ELSE 0)
        /\ (nStop > 0 => stopCause = "interrupt" /\ interrupted)
        /\ (~interrupted => running \/ pc = "init")

C6_Witness ==
    /\ cfg.retry /\ cfg.max_retries = 0
    /\ nConnFail >= 1 /\ nMidFail >= 1 /\ nStoreFail >= 1
    /\ Failures = FailureCap
    /\ pc = "consuming" /\ running

\* C7: a user interrupt is terminal, switches reconnecting off and cancels the
\* pending reconnect timer
C7_InterruptDisablesAndCancels ==
    interrupted => (~running /\ ~RETRY_ON_CONNECTION_ERROR /\ timers = 0)

\* C8: the consume loop runs only with a store handle; when the store connect
\* fails with no retry left (or retries disabled) StopReactor runs although the
\* broker connection is healthy, no event of that session was fetched and no
\* reconnect is scheduled
C8_NoConsumeWithoutStore ==
    /\ (pc = "consuming" => mongosource = Handle)
    /\ (last.session = nConnects /\ last.session > 0 => mongosource = Handle)
    /\ (stopCause = "store" =>
            /\ ~running /\ nStop = 1
            /\ mongosource = None
            /\ conn = "consuming"
            /\ last.session # nConnects
            /\ timers = 0)

C8_Witness ==
    /\ stopCause = "store"
    /\ cfg.retry /\ cfg.max_retries > 0
    /\ mongo_max_retries = 0
    /\ inbox # <<>>

\* C9: the broker and the store retry counters are independent: both start at
\* max_retries, the broker counter moves only with scheduled reconnects, the
\* store counter only with rounds of the store retry loop
C9_IndependentCounters ==
    /\ amqp_broker_max_retries = cfg.max_retries - nScheduled
    /\ mongo_max_retries = cfg.max_retries - nStoreRetry

C9_Witness ==
    /\ nScheduled = 2 /\ nStoreRetry = 1
    /\ amqp_broker_max_retries = cfg.max_retries - 2
    /\ mongo_max_retries = cfg.max_retries - 1

\* C10: an event delivered again after a failed delivery leaves the document
\* as one delivery would: the dlr list has one entry per DeliveryReceipt event
C10_NoDuplicateDlr ==
    \A id \in MessageIds :
        \A i, j \in DOMAIN store[id].dlr :
            i # j => store[id].dlr[i] # store[id].dlr[j]

\* the pass taken by this step is on an event of the given kind for message id
PassOn(kind, id) ==
    /\ last' # last
    /\ Classify(Head(inbox).rk) = kind
    /\ Head(inbox).id = id

\* C11: the dlr list of a message changes only in a DeliveryReceipt pass for
\* that message; such a pass whose write completes appends exactly the entry
\* of its event behind the entries already stored, which keep their values and
\* order; when no document exists the pass creates it with a dlr list of
\* exactly that one entry
C11_DlrAppendOnly ==
    [][\A id \in MessageIds :
         /\ store'[id].dlr # store[id].dlr => PassOn("DeliveryReceipt", id)
         /\ (PassOn("DeliveryReceipt", id) /\ Len(last'.ops) = 3) =>
               /\ store'[id].dlr = Append(store[id].dlr, Head(inbox).eid)
               /\ store'[id].exists
               /\ ~store[id].exists =>
                     /\ store'[id].dlr = <<Head(inbox).eid>>
                     /\ store'[id].fields = {"dlr"}]_vars

C11_Witness ==
    /\ store[1].dlr = <<1, 2>>
    /\ store[1].fields = {"dlr"}
    /\ last.kind = "DeliveryReceipt" /\ last.eid = 2 /\ last.acked

C13_AckWithoutDocument ==
    [][\A id \in MessageIds :
         (PassOn("Acknowledgement", id) /\ ~store[id].exists /\ ~last'.raised) =>
             /\ last'.acked
             /\ Head(inbox).eid \in acked'
             /\ pc' = "consuming"
             /\ store'[id].exists
             /\ store'[id].fields = {"ack"}
             /\ store'[id].ack = Head(inbox).eid
             /\ store'[id].dlr = <<>>]_vars

C13_Witness ==
    /\ store[1].exists
    /\ store[1].fields = {"ack"}
    /\ store[1].ack = 1
    /\ last.kind = "Acknowledgement" /\ last.eid = 1 /\ last.acked
    /\ pc = "consuming"

\* C14: events are processed by one task at a time: at most one reconnect
\* timer is pending and only while no task runs, rabbitMQConnect starts a
\* session only when no task runs, a pass is taken only by the consume loop
\* and on the oldest event the broker delivered to it, and the store changes
\* only in such a pass, so the writes follow the delivery order
C14_OneTaskInDeliveryOrder ==
    [][/\ timers' \in 0..1
       /\ timers' = 1 => pc' = "idle"
       /\ nConnects' # nConnects => pc \in {"init", "idle"}
       /\ last' # last =>
             /\ pc = "consuming"
             /\ last'.eid = Head(inbox).eid
             /\ last'.session = nConnects
       /\ (store' # store \/ users' # users \/ acked' # acked) => last' # last]_vars

\* a second session has taken a pass and a reconnect timer is pending
C14_Witness ==
    /\ timers = 1 /\ pc = "idle"
    /\ nConnects = 2
    /\ last.session = 2 /\ last.raised
    /\ store[1].exists

\* C15: at most one broker connection is open at any time: no connection of
\* an ended session is still open, and while rabbitMQConnect's connectTCP is
\* in flight the connection of the previous session has been closed
C15_OneConnection ==
    /\ zombies = 0
    /\ pc = "connecting" => conn \notin {"open", "consuming"}

\* C16: when the consume loop is left because of a failure, on the way to a
\* reconnect as on the way to StopReactor, the connection of the session is
\* closed before the reconnect is scheduled or the reactor is stopped
C16_FailureClosesConnection ==
    [][(pc = "consuming" /\ pc' = "idle" /\ nMidFail' # nMidFail) =>
            conn' \notin {"open", "consuming"}]_vars

\* Python str.startswith on character sequences
HasPrefix(s, p) == Len(s) >= Len(p) /\ SubSeq(s, 1, Len(p)) = p

\* C17: the pass on any routing key takes exactly one branch: Submission for
\* the prefix submit.sm. without the prefix submit.sm.resp., Acknowledgement
\* for submit.sm.resp., DeliveryReceipt for dlr_thrower., Unknown otherwise;
\* an Unknown event makes the single call basic_ack, which acknowledges it
\* unless the call itself fails, and leaves both collections untouched
C17_ClassifyUnknownAcked ==
    [][last' # last =>
        LET rk == Head(inbox).rk
            isResp == HasPrefix(rk, SUBMIT_SM_RESP_PREFIX)
            isSub == HasPrefix(rk, SUBMIT_SM_PREFIX) /\ ~isResp
            isDlr == HasPrefix(rk, DLR_THROWER_PREFIX)
        IN /\ (last'.kind = "Submission") <=> isSub
           /\ (last'.kind = "Acknowledgement") <=> isResp
           /\ (last'.kind = "DeliveryReceipt") <=> isDlr
           /\ (last'.kind = "Unknown") <=> ~(isSub \/ isResp \/ isDlr)
           /\ last'.kind = "Unknown" =>
                 /\ last'.ops = <<"basic_ack">>
                 /\ store' = store /\ users' = users
                 /\ ~last'.raised =>
                       /\ last'.acked /\ Head(inbox).eid \in acked'
                       /\ pc' = "consuming"]_vars

C17_Witness ==
    /\ last.kind = "Unknown" /\ last.eid = 1
    /\ last.acked /\ 1 \in acked
    /\ inbox = <<>>
    /\ ~store[1].exists /\ users = 0
    /\ pc = "consuming"

\* C18: sanitizing a sanitized document changes nothing: after the first
\* replace_none and fix_keys every further sanitization returns the document
\* it was given
C18_SanitizeIdempotent ==
    /\ sanN >= 1 => Sanitize(sanDoc) = sanDoc
    /\ sanN >= 1 => sanDoc = Sanitize(sanIn)

\* {"$": {".": None}} sanitized twice
C18_Witness ==
    /\ sanN = 2
    /\ sanIn = Dict(<<Item(<<"$">>, Dict(<<Item(<<".">>, Null)>>))>>)
    /\ sanDoc = Dict(<<Item(DOLLAR_, Dict(<<Item(<<"_">>, NoneText)>>))>>)

\* the textual keys of the maps of a document, at every depth
RECURSIVE KeysOf(_)
KeysOf(d) ==
    IF ~Composite(d) THEN {}
    ELSE (IF d.t = "dict"
          THEN {d.items[i].k : i \in {j \in DOMAIN d.items : IsStr(d.items[j].k)}}
          ELSE {})
         \cup UNION {KeysOf(d.items[i].val) : i \in DOMAIN d.items}

ExpectedKey(k) ==
    LET body == IF StartsWith(k, "$") THEN DOLLAR_ \o Tail(k) ELSE k
    IN ReplaceAll(ReplaceAll(body, ".", <<"_">>), "-", <<"_">>)

\* C20: a map with one textual key is sanitized to a map with one entry whose
\* key is the original key with only a leading "$" replaced by dollar_ and
\* every "." and "-" replaced by "_", and whose value is the original value
\* (sanitized in turn)
C20_KeyRewrittenAsRuled ==
    (sanN = 1 /\ sanIn.t = "dict" /\ Len(sanIn.items) = 1
        /\ IsStr(sanIn.items[1].k)) =>
        /\ Len(sanDoc.items) = 1
        /\ sanDoc.items[1].k = ExpectedKey(sanIn.items[1].k)
        /\ sanDoc.items[1].val =
              (IF sanIn.items[1].val = Null THEN NoneText
               ELSE Sanitize(sanIn.items[1].val))

\* b is a with every null held in a map or list, at any depth, turned into
\* the string "None" and nothing else changed
RECURSIVE OnlyNullsReplaced(_, _)
OnlyNullsReplaced(a, b) ==
    IF ~Composite(a) THEN b = a
    ELSE /\ b.t = a.t
         /\ Len(b.items) = Len(a.items)
         /\ \A i \in DOMAIN a.items :
               /\ b.items[i].k = a.items[i].k
               /\ IF a.items[i].val = Null
                  THEN b.items[i].val = NoneText
                  ELSE OnlyNullsReplaced(a.items[i].val, b.items[i].val)

\* the values of type t held in a document, at every depth
RECURSIVE Holds(_, _)
Holds(d, t) ==
    Composite(d) /\ \E i \in DOMAIN d.items :
        d.items[i].val.t = t \/ Holds(d.items[i].val, t)

\* C21: replace_none turns every null held in a map or a list, at any depth,
\* into the string "None" and changes nothing else: the other scalars keep
\* their value, maps and lists keep their keys, length and order
C21_OnlyNullsBecomeNone ==
    sanN >= 1 => (OnlyNullsReplaced(sanIn, sanDoc) /\ ~Holds(sanDoc, "null"))

\* {"$.": [None]}: the null inside the list is replaced, the key is kept
C21_Witness ==
    /\ sanN = 1
    /\ sanIn = Dict(<<Item(<<"$", ".">>, List(<<Item(<<>>, Null)>>))>>)
    /\ sanDoc = Dict(<<Item(<<"$", ".">>, List(<<Item(<<>>, NoneText)>>))>>)

(* ------------- properties of the document built from an event ---------- *)
\* a Submission document has been built (the bill did not raise)
Built == docOut.kind = "Submission" /\ ~docOut.raised

\* the size-only text of privacy mode, or the bytes themselves
Stored(b, privacy) == IF privacy THEN Private("byte", Len(b)) ELSE Bytes(b)

\* neither sar_msg_ref_num nor the UDHI indicator with the 05 00 03 signature
NoSplit(msg) ==
    /\ ~msg.sar
    /\ ~(msg.udhi /\ Len(msg.chain[1]) >= 3
                  /\ SubSeq(msg.chain[1], 1, 3) = <<5, 0, 3>>)

\* C22: when the split method is None (no sar_msg_ref_num, and not UDHI with
\* the signature) the page count is 1 and the stored bytes are the first
\* fragment's short_message unmodified, whatever fragments are linked after it
C22_NoSplitSinglePage ==
    (Built /\ NoSplit(msgIn)) =>
        /\ docOut.page_count = 1
        /\ docOut.short_message = Stored(msgIn.chain[1], msgIn.privacy)
        /\ docOut.binary_message = Stored(hexlify(msgIn.chain[1]), msgIn.privacy)

\* UDHI set on a first PDU that starts with a header of another kind, and a
\* second PDU linked after it: one page, the first short_message whole
C22_Witness ==
    /\ Built /\ NoSplit(msgIn)
    /\ msgIn.udhi /\ ~msgIn.privacy
    /\ msgIn.chain = <<OTHER_UDH \o <<65>>, UDH(2) \o <<195, 169>>>>
    /\ docOut.page_count = 1
    /\ docOut.short_message = Bytes(OTHER_UDH \o <<65>>)

\* the fragments of a chain in chain order, each without its first n bytes
RECURSIVE Joined(_, _)
Joined(chain, n) ==
    IF chain = <<>> THEN <<>>
    ELSE SubSeq(Head(chain), n + 1, Len(Head(chain))) \o Joined(Tail(chain), n)

\* C23: for a multi-part chain the stored bytes are the concatenation, in
\* chain order, of each fragment's short_message without its first 6 bytes
\* when the method is udh and whole when the method is sar; the page count is
\* the chain length (the loop over the chain ends after the last fragment)
C23_ChainConcatenated ==
    (Built /\ ~NoSplit(msgIn)) =>
        /\ docOut.page_count = Len(msgIn.chain)
        /\ docOut.short_message =
              Stored(Joined(msgIn.chain, IF msgIn.sar THEN 0 ELSE 6),
                     msgIn.privacy)

\* two fragments H+"AA" and H+"\xc3\xa9" with a 6-byte header H: four bytes
\* on two pages
C23_Witness ==
    /\ Built /\ ~msgIn.sar /\ msgIn.udhi /\ ~msgIn.privacy
    /\ msgIn.chain = <<UDH(1) \o <<65, 65>>, UDH(2) \o <<195, 169>>>>
    /\ docOut.page_count = 2
    /\ docOut.short_message = Bytes(<<65, 65, 195, 169>>)

\* the text the mapping of data-coding identifiers to codecs gives: ASCII for
\* 0 and 1, Latin-1 for 3, big-endian UTF-16 for 8, UTF-8 for every other
\* value and for an absent identifier
TextByMapping(data_coding, b) ==
    IF data_coding \in {0, 1} THEN Str(decode_ascii(b))
    ELSE IF data_coding = 3 THEN Str(b)
    ELSE IF data_coding = 8 THEN Str(decode_utf16be(b))
    ELSE Str(decode_utf8(b))

\* C24: the stored short_message_decoded is the text the codec chosen from
\* the data-coding identifier gives for the reassembled bytes: ASCII for SMSC
\* default and IA5, Latin-1 for Latin-1, UTF-16BE for UCS2, UTF-8 for every
\* other value and for an absent identifier (text, not the raw bytes)
C24_DecodedByDataCoding ==
    (Built /\ ~msgIn.privacy) =>
        docOut.short_message_decoded =
            TextByMapping(msgIn.data_coding, docOut.short_message.data)

\* the events that differ from msg only in content of the same byte sizes:
\* the same number of fragments, each of the same length, or a dlr text of
\* the same length
SameSizes(c1, c2) ==
    Len(c1) = Len(c2) /\ \A i \in DOMAIN c1 : Len(c1[i]) = Len(c2[i])

Variants(msg) ==
    IF msg.kind = "Submission"
    THEN {[msg EXCEPT !.chain = c] : c \in {x \in Chains : SameSizes(x, msg.chain)}}
    ELSE {[msg EXCEPT !.text = t] :
             t \in {x \in DlrTexts : x.type = msg.text.type
                                     /\ Len(x.data) = Len(msg.text.data)}}

\* the number of characters the decoded message has
CharCount(msg) ==
    Len(DecodeShortMessage(msg.data_coding, Reassemble(msg).short_message).data)

\* the three content fields hold size-only texts, the dlr text holds one when
\* it is present and not empty
SizeOnly(msg, doc) ==
    /\ doc.kind = "Submission" =>
          /\ doc.short_message =
                Private("byte", Len(Reassemble(msg).short_message))
          /\ doc.binary_message =
                Private("byte", 2 * Len(Reassemble(msg).short_message))
          /\ doc.short_message_decoded = Private("char", CharCount(msg))
    /\ (doc.kind = "DeliveryReceipt" /\ msg.text.type = "str"
                                     /\ msg.text.data # <<>>) =>
          doc.text = Private("char", Len(msg.text.data))

\* C25 as stated: with privacy mode on the document holds size-only
\* placeholders, and two events that differ only in content of equal byte
\* sizes give identical documents
C25_EqualSizesSameDocument ==
    (docOut.kind # "none" /\ ~docOut.raised /\ msgIn.privacy) =>
        /\ SizeOnly(msgIn, docOut)
        /\ \A m \in Variants(msgIn) : BuildDocument(m) = docOut

\* C25: with privacy mode on the Submission document holds size-only
\* placeholders for short_message, binary_message and short_message_decoded
\* and a dlr entry whose text is present and not empty holds a size-only
\* placeholder; two events that differ only in content of equal byte sizes,
\* are split by the same method and decode to the same number of characters
\* give identical documents
C25_PrivacySizeOnly ==
    (docOut.kind # "none" /\ ~docOut.raised /\ msgIn.privacy) =>
        /\ SizeOnly(msgIn, docOut)
        /\ \A m \in Variants(msgIn) :
              (SplitMethod(m) = SplitMethod(msgIn) /\ CharCount(m) = CharCount(msgIn))
                  => BuildDocument(m) = docOut

\* "AA" under Latin-1 with privacy on: 2 bytes, 4 hexadecimal digits, 2
\* characters, the same document as for the two bytes c3 a9
C25_Witness ==
    /\ Built /\ msgIn.privacy /\ msgIn.data_coding = LATIN_1
    /\ msgIn.chain = <<<<65, 65>>>>
    /\ docOut.short_message = Private("byte", 2)
    /\ docOut.binary_message = Private("byte", 4)
    /\ docOut.short_message_decoded = Private("char", 2)
    /\ [msgIn EXCEPT !.chain = <<<<195, 169>>>>] \in Variants(msgIn)
    /\ BuildDocument([msgIn EXCEPT !.chain = <<<<195, 169>>>>]) = docOut

\* C26: in the bill of a Submission document amount_charge is amount_rate
\* times page_count and sms_count_charge is sms_count_rate times page_count,
\* the rates being those of the event's billing and page_count the page count
\* of the reassembly of the same event: 1 without a split method, the chain
\* length with one
C26_ChargeIsRateTimesPages ==
    Built =>
        /\ docOut.bill.amount_rate = msgIn.amount_rate
        /\ docOut.bill.sms_count_rate = msgIn.sms_count_rate
        /\ docOut.bill.amount_charge = docOut.bill.amount_rate * docOut.bill.page_count
        /\ docOut.bill.sms_count_charge =
              docOut.bill.sms_count_rate * docOut.bill.page_count
        /\ docOut.bill.page_count = docOut.page_count
        /\ docOut.bill.page_count =
              IF NoSplit(msgIn) THEN 1 ELSE Len(msgIn.chain)

\* a two-part sar chain billed 3 and 2 per page is charged 6 and 4
C26_Witness ==
    /\ Built /\ msgIn.sar /\ Len(msgIn.chain) = 2
    /\ docOut.bill.page_count = 2
    /\ docOut.bill.amount_rate = 3 /\ docOut.bill.amount_charge = 6
    /\ docOut.bill.sms_count_rate = 2 /\ docOut.bill.sms_count_charge = 4

(* ------------------ properties of the order of connections ------------- *)
\* C27: in every broker session the store connection is established before
\* consumption starts: while the store connect loop has not returned, the
\* consumer is not registered with the broker (basic_consume) and no event
\* has been delivered to it
C27_StoreBeforeConsumer ==
    pc \in {"mongo", "mongo_retry"} => (conn # "consuming" /\ inbox = <<>>)

(* --------------------- properties of the retry budgets ----------------- *)
\* C29: the broker retry counter never increases: no step, a successful
\* connection and a pass of the consume loop included, gives budget back; so
\* with bounded max_retries = N the step that makes the (N+1)-th broker
\* failure of the run stops the reactor, whatever successful sessions lie
\* between the failures, and every earlier broker failure leaves it running
C29_BrokerBudgetNeverRestored ==
    [][/\ amqp_broker_max_retries' <= amqp_broker_max_retries
       /\ (cfg.retry /\ cfg.max_retries > 0 /\ ~interrupted'
             /\ BrokerFailures' = BrokerFailures + 1) =>
             IF BrokerFailures' = cfg.max_retries + 1
             THEN ~running' /\ stopCause' = "broker" /\ nStop' = 1
             ELSE running' /\ BrokerFailures' <= cfg.max_retries
                           /\ amqp_broker_max_retries' = amqp_broker_max_retries - 1]_vars

\* N = 2: the third broker failure stops the reactor in the third session,
\* after events were acknowledged in earlier sessions
C29_Witness ==
    /\ cfg.retry /\ cfg.max_retries = 2
    /\ nConnects = 3 /\ nConnFail = 0 /\ nMidFail = 3
    /\ acked # {} /\ last.session = 3
    /\ amqp_broker_max_retries = 0
    /\ ~running /\ stopCause = "broker"

\* C30: the store retry counter goes down by one with every round of the
\* store retry loop, the round that succeeds included, and no other step
\* changes it, a broker reconnect included; so with bounded max_retries = N
\* the rounds of all sessions together are at most N, and in a session that
\* starts with the counter at 0 the first store connect attempt is the only
\* one
C30_StoreBudgetNeverRestored ==
    [][/\ mongo_max_retries' =
             IF nStoreRetry' = nStoreRetry + 1 THEN mongo_max_retries - 1
             ELSE mongo_max_retries
       /\ (pc = "mongo_retry" /\ pc' # pc /\ ~interrupted') =>
             nStoreRetry' = nStoreRetry + 1
       /\ (cfg.retry /\ cfg.max_retries > 0) =>
             /\ nStoreRetry' <= cfg.max_retries
             /\ (pc = "mongo" /\ mongo_max_retries = 0) => pc' # "mongo_retry"]_vars

\* N = 1: two sessions, one round of the retry loop in all; the store connect
\* of the second session has failed with the counter at 0 and the reactor is
\* stopped without another round
C30_Witness ==
    /\ cfg.retry /\ cfg.max_retries = 1
    /\ nConnects = 2 /\ nMidFail = 1
    /\ nStoreFail = 2 /\ nStoreRetry = 1
    /\ mongo_max_retries = 0
    /\ last.session = 1
    /\ stopCause = "store" /\ ~running

(* ------------------------------- recovery ------------------------------ *)
\* C28: with retries enabled and max_retries <= 0, when the broker and the
\* store end up reachable, the pipeline gets from every state outside the
\* consume loop, so after every failure, to the consume loop again, unless
\* the user interrupts it
C28_EventuallyConsumingAgain ==
    (cfg.retry /\ cfg.max_retries <= 0 /\ pc # "consuming")
        ~> (pc = "consuming" \/ interrupted)

\* max_retries = -1: after a broker failure at connect time, one in the
\* consume loop and a failed store connect the loop runs again with a handle
C28_Witness ==
    /\ cfg.retry /\ cfg.max_retries = -1
    /\ nConnFail = 1 /\ nMidFail = 1 /\ nStoreFail = 1
    /\ nConnects = 3 /\ timers = 0
    /\ pc = "consuming" /\ running /\ ~interrupted
    /\ mongosource = Handle /\ conn = "consuming"

(* ---------------------- properties of the split method ----------------- *)
\* the first body starts with the 3-byte signature 05 00 03
Signed(b) == Len(b) >= 3 /\ b[1] = 5 /\ b[2] = 0 /\ b[3] = 3

\* C31: the split method is decided on the first fragment only, and
\* sar_msg_ref_num comes first: when the first fragment has it nothing is
\* stripped from any fragment, also with UDHI set and a body that starts with
\* the signature; 6 bytes are stripped, from every fragment, with or without
\* the signature on the later ones, only when the first fragment has no
\* sar_msg_ref_num, UDHI is set and the first body starts with the signature;
\* in every other case, a later fragment with sar_msg_ref_num or with the
\* signature included, the first body is stored alone and whole
C31_SplitDecidedOnFirstFragment ==
    Built =>
        docOut.short_message =
            Stored(IF msgIn.sar THEN Joined(msgIn.chain, 0)
                   ELSE IF msgIn.udhi /\ Signed(msgIn.chain[1])
                   THEN Joined(msgIn.chain, 6)
                   ELSE msgIn.chain[1],
                   msgIn.privacy)

\* sar_msg_ref_num on a first PDU with UDHI and the signature, linked to a
\* PDU that has no header: both bodies are stored whole
C31_Witness ==
    /\ Built /\ msgIn.sar /\ msgIn.udhi /\ ~msgIn.privacy
    /\ msgIn.chain = <<UDH(1) \o <<65>>, <<65>>>>
    /\ docOut.page_count = 2
    /\ docOut.short_message = Bytes(<<5, 0, 3, 7, 2, 1, 65, 65>>)

=============================================================================
